---- MODULE Spec2Model ----
(***************************************************************************)
(* A model of the headaches Brainfuck interpreter: the State of a process  *)
(* (src/src/lib.rs), the dispatch of one Instruction by State::run, and    *)
(* the ISO-8859 character table of src/src/compat.rs.                      *)
(*                                                                         *)
(* Characters are modelled by their Unicode code points.  The pointer is   *)
(* 0-based as in the source; TLA+ sequences are 1-based, so the cell the   *)
(* source writes mem[pointer] is mem[pointer + 1] here.                    *)
(***************************************************************************)
EXTENDS Integers, Sequences, FiniteSets, TLC

VARIABLES
    mem,      \* State.mem: the cells, a sequence of u8
    pointer,  \* State.pointer: 0-based index of the selected cell
    outted,   \* State.outted
    stdout,   \* the characters printed so far (code points)
    stdin,    \* the bytes not yet read from standard input
    stack,    \* the active Loop invocations of State::run, innermost last
    log,      \* history: the instructions the caller has passed to State::run
    last,     \* history: the State::run call that completed most recently
    start,    \* history: the State the caller started from
    conv,     \* the chain of values of successive calls of the conversions
    highest,  \* history: the highest value pointer has had
    consumed, \* history: the bytes read from standard input so far
    parse     \* the parser: its source text, its position and its stack

vars == <<mem, pointer, outted, stdout, stdin, stack, log, last, start, conv,
          highest, consumed, parse>>

(***************************************************************************)
(* Bounds of the model.                                                    *)
(***************************************************************************)
MaxCalls == 3      \* calls of State::run the caller makes on one State
MaxConv == 3       \* values in a chain of conversions
MaxSrc == 4        \* characters of a source text given to the parser

(***************************************************************************)
(* u8 arithmetic.                                                          *)
(***************************************************************************)
ByteMod == 256
Byte == 0 .. (ByteMod - 1)

\* A u8 addition that saturates at 255 instead of wrapping.
SatAdd1(v) == IF v + 1 > ByteMod - 1 THEN ByteMod - 1 ELSE v + 1

\* u8::overflowing_add(1).0
WrapAdd1(v) == (v + 1) % ByteMod
\* A u8 subtraction that saturates at 0 instead of wrapping.
SatSub1(v) == IF v = 0 THEN 0 ELSE v - 1

\* u8::overflowing_sub(1).0
WrapSub1(v) == (v + ByteMod - 1) % ByteMod

(***************************************************************************)
(* compat.rs: the character table and the two conversions.                 *)
(***************************************************************************)
CHAR_TABLE == <<
    <<32, 32, 32, 32, 32, 32, 32, 32, 32, 32, 32, 32, 32, 32, 32, 32>>,
    <<32, 32, 32, 32, 32, 32, 32, 32, 32, 32, 32, 32, 32, 32, 32, 32>>,
    <<8201, 33, 34, 35, 36, 37, 38, 39, 40, 41, 42, 43, 44, 45, 46, 47>>,
    <<48, 49, 50, 51, 52, 53, 54, 55, 56, 57, 58, 59, 60, 61, 62, 63>>,
    <<64, 65, 66, 67, 68, 69, 70, 71, 72, 73, 74, 75, 76, 77, 78, 79>>,
    <<80, 81, 82, 83, 84, 85, 86, 87, 88, 89, 90, 91, 92, 93, 94, 95>>,
    <<96, 97, 98, 99, 100, 101, 102, 103, 104, 105, 106, 107, 108, 109, 110, 111>>,
    <<112, 113, 114, 115, 116, 117, 118, 119, 120, 121, 122, 123, 124, 125, 126, 32>>,
    <<32, 32, 32, 32, 32, 32, 32, 32, 32, 32, 32, 32, 32, 32, 32, 32>>,
    <<32, 32, 32, 32, 32, 32, 32, 32, 32, 32, 32, 32, 32, 32, 32, 32>>,
    <<163, 161, 162, 163, 164, 165, 166, 167, 168, 169, 170, 171, 172, 173, 174, 175>>,
    <<176, 177, 178, 179, 180, 181, 182, 183, 184, 185, 186, 187, 188, 189, 190, 191>>,
    <<192, 193, 194, 195, 196, 197, 198, 199, 200, 201, 202, 203, 204, 205, 206, 207>>,
    <<208, 209, 210, 211, 212, 213, 214, 215, 216, 217, 218, 219, 220, 221, 222, 223>>,
    <<224, 225, 226, 227, 228, 229, 230, 231, 232, 233, 234, 235, 236, 237, 238, 239>>,
    <<240, 241, 242, 243, 244, 245, 246, 247, 248, 249, 250, 251, 252, 253, 254, 255>> >>

\* The characters that occur in the table.
TableChars == {CHAR_TABLE[i][j] : i \in 1 .. 16, j \in 1 .. 16}

\* to_char_8859(b): CHAR_TABLE[b / 16][b % 16]
to_char_8859(b) == CHAR_TABLE[(b \div 16) + 1][(b % 16) + 1]

\* The inner `for` of from_char_8859 on one row: the first column of the row
\* that holds c (the `break` leaves this row only), or -1 when none does.
RowFirstMatch(row, c) ==
    LET hits == {d2 \in 0 .. 15 : row[d2 + 1] = c}
    IN  IF hits = {} THEN -1
        ELSE CHOOSE d2 \in hits : \A e \in hits : d2 <= e

\* A scan whose `break` leaves both loops: the first row that holds c wins.
RECURSIVE ScanRowsBreakAll(_, _, _)
ScanRowsBreakAll(d1, b, c) ==
    IF d1 > 15 THEN b
    ELSE LET d2 == RowFirstMatch(CHAR_TABLE[d1 + 1], c)
         IN  IF d2 >= 0 THEN d1 * 16 + d2
             ELSE ScanRowsBreakAll(d1 + 1, b, c)

\* A scan that computes the byte as d2 * 16 + d1.
RECURSIVE ScanRowsTransposed(_, _, _)
ScanRowsTransposed(d1, b, c) ==
    IF d1 > 15 THEN b
    ELSE LET d2 == RowFirstMatch(CHAR_TABLE[d1 + 1], c)
         IN  ScanRowsTransposed(d1 + 1,
                                IF d2 >= 0 THEN d2 * 16 + d1 ELSE b, c)

\* The outer `for` of from_char_8859 from row d1 on, b being the value found
\* so far (-1 models None): every row that holds c overwrites b, because the
\* `break` ends the inner loop only.
RECURSIVE ScanRows(_, _, _)
ScanRows(d1, b, c) ==
    IF d1 > 15 THEN b
    ELSE LET d2 == RowFirstMatch(CHAR_TABLE[d1 + 1], c)
         IN  ScanRows(d1 + 1, IF d2 >= 0 THEN d1 * 16 + d2 ELSE b, c)

\* from_char_8859(c): the scan, with None turned into 0
from_char_8859(c) ==
    LET b == ScanRows(0, -1, c)
    IN  IF b >= 0 THEN b ELSE 0

(***************************************************************************)
(* lib.rs: instructions.  Every instruction is a record with the variant   *)
(* in op and the Loop's inner instructions in body (empty for the others). *)
(***************************************************************************)
Leaf(o) == [op |-> o, body |-> <<>>]
Increment == Leaf("Increment")
Decrement == Leaf("Decrement")
Forward == Leaf("Forward")
Backward == Leaf("Backward")
LoopEnd == Leaf("LoopEnd")
Out == Leaf("Out")
In == Leaf("In")
Loop(inners) == [op |-> "Loop", body |-> inners]

\* The loops the caller runs: "[>+<-]", "[-]", "[>]" and "[[>]]".  Each of
\* them returns from every State, so the history of a call stays finite.
CopyLoop == Loop(<<Forward, Increment, Backward, Decrement>>)
ClearLoop == Loop(<<Decrement>>)
SeekLoop == Loop(<<Forward>>)
NestedLoop == Loop(<<SeekLoop>>)

\* The instructions the caller passes to State::run.
Program ==
    {Increment, Decrement, Forward, Backward, LoopEnd, Out, In,
     CopyLoop, ClearLoop, SeekLoop, NestedLoop}

\* The contents of standard input the model starts from.
Inputs == {<<>>, <<32, 163, 10>>}

(***************************************************************************)
(* The State, and what the history variables record of it.                 *)
(***************************************************************************)
Snap == [mem |-> mem, pointer |-> pointer, outted |-> outted,
         stdout |-> stdout, stdin |-> stdin]

\* State::new()
NewState == [mem |-> <<0>>, pointer |-> 0, outted |-> FALSE]

\* The value of last before any call of State::run has completed.
NoCall ==
    [instr |-> Leaf("New"),
     pre |-> [mem |-> <<0>>, pointer |-> 0, outted |-> FALSE,
              stdout |-> <<>>, stdin |-> <<>>],
     passes |-> 0, depth |-> 0]

\* No text is being parsed.
NoParse == [src |-> <<>>, pos |-> 0, stk |-> <<>>, ch |-> -1,
            cls |-> Leaf("None"), state |-> "idle", tree |-> <<>>]

\* No conversion is under study.
NoConv == [kind |-> "none", vals |-> <<>>]

Init ==
    /\ mem = NewState.mem
    /\ pointer = NewState.pointer
    /\ outted = NewState.outted
    /\ stdout = <<>>
    /\ stdin \in Inputs
    /\ stack = <<>>
    /\ log = <<>>
    /\ last = NoCall
    /\ start = NewState
    /\ conv = NoConv
    /\ highest = 0
    /\ consumed = <<>>
    /\ parse = NoParse

(***************************************************************************)
(* State::run.  A call on a leaf instruction is one step.  A call on a     *)
(* Loop is a frame on stack: idx is the position of the `for` in inners,   *)
(* entry the State when the call began, passes the completed passes.       *)
(***************************************************************************)
Top == stack[Len(stack)]

\* The instruction State::run is called with next: any instruction of the
\* caller when no call is active, otherwise the next one of `for inner in
\* inners` of the innermost Loop.
Pending ==
    IF stack = <<>> THEN Program
    ELSE IF Top.idx <= Len(Top.body) THEN {Top.body[Top.idx]} ELSE {}

\* The caller makes at most MaxCalls calls of State::run; the calls State::run
\* makes on itself inside a Loop are not bounded.
Caller == stack = <<>> => Len(log) < MaxCalls

\* The `for` of the innermost Loop moves on to its next inner instruction.
Advance(stk) ==
    IF stk = <<>> THEN stk
    ELSE [stk EXCEPT ![Len(stk)].idx = @ + 1]

\* A call on a leaf instruction i returns.
Return(i) ==
    /\ stack' = Advance(stack)
    /\ log' = IF stack = <<>> THEN Append(log, i) ELSE log
    /\ last' = [instr |-> i, pre |-> Snap, passes |-> 0, depth |-> Len(stack)]
    /\ highest' = IF pointer' > highest THEN pointer' ELSE highest
    /\ consumed' = IF stdin' = stdin THEN consumed
                   ELSE Append(consumed, Head(stdin))
    /\ UNCHANGED <<start, conv, parse>>

\* An Increment that also sets outted.
RunIncrementFlag ==
    /\ Increment \in Pending
    /\ mem' = [mem EXCEPT ![pointer + 1] = WrapAdd1(@)]
    /\ outted' = TRUE
    /\ UNCHANGED <<pointer, stdout, stdin>>
    /\ Return(Increment)

RunIncrement ==
    /\ Increment \in Pending
    /\ mem' = [mem EXCEPT ![pointer + 1] = WrapAdd1(@)]
    /\ UNCHANGED <<pointer, outted, stdout, stdin>>
    /\ Return(Increment)

\* A Decrement that leaves a zero cell alone instead of wrapping.
RunDecrementChecked ==
    /\ Decrement \in Pending
    /\ mem' = [mem EXCEPT ![pointer + 1] = IF @ = 0 THEN 0 ELSE @ - 1]
    /\ UNCHANGED <<pointer, outted, stdout, stdin>>
    /\ Return(Decrement)

RunDecrement ==
    /\ Decrement \in Pending
    /\ mem' = [mem EXCEPT ![pointer + 1] = WrapSub1(@)]
    /\ UNCHANGED <<pointer, outted, stdout, stdin>>
    /\ Return(Decrement)

\* A Forward that never pushes a cell.
RunForwardNoPush ==
    /\ Forward \in Pending
    /\ pointer' = pointer + 1
    /\ UNCHANGED <<mem, outted, stdout, stdin>>
    /\ Return(Forward)

\* A Forward that pushes a cell on every call.
RunForwardAlwaysPush ==
    /\ Forward \in Pending
    /\ mem' = Append(mem, 0)
    /\ pointer' = pointer + 1
    /\ UNCHANGED <<outted, stdout, stdin>>
    /\ Return(Forward)

RunForward ==
    /\ Forward \in Pending
    /\ mem' = IF pointer + 1 = Len(mem) THEN Append(mem, 0) ELSE mem
    /\ pointer' = pointer + 1
    /\ UNCHANGED <<outted, stdout, stdin>>
    /\ Return(Forward)

\* A Backward without the test of pointer against 0.
RunBackwardUnchecked ==
    /\ Backward \in Pending
    /\ pointer' = pointer - 1
    /\ UNCHANGED <<mem, outted, stdout, stdin>>
    /\ Return(Backward)

RunBackward ==
    /\ Backward \in Pending
    /\ pointer' = IF pointer # 0 THEN pointer - 1 ELSE pointer
    /\ UNCHANGED <<mem, outted, stdout, stdin>>
    /\ Return(Backward)

RunLoopEnd ==
    /\ LoopEnd \in Pending
    /\ UNCHANGED <<mem, pointer, outted, stdout, stdin>>
    /\ Return(LoopEnd)

\* An Out that prints without setting outted.
RunOutNoFlag ==
    /\ Out \in Pending
    /\ stdout' = Append(stdout, to_char_8859(mem[pointer + 1]))
    /\ UNCHANGED <<mem, pointer, outted, stdin>>
    /\ Return(Out)

RunOut ==
    /\ Out \in Pending
    /\ outted' = TRUE
    /\ stdout' = Append(stdout, to_char_8859(mem[pointer + 1]))
    /\ UNCHANGED <<mem, pointer, stdin>>
    /\ Return(Out)

\* An In that stores the byte it read, without from_char_8859.
InOkRaw ==
    /\ In \in Pending
    /\ stdin # <<>>
    /\ mem' = [mem EXCEPT ![pointer + 1] = Head(stdin)]
    /\ outted' = TRUE
    /\ stdin' = Tail(stdin)
    /\ UNCHANGED <<pointer, stdout>>
    /\ Return(In)

\* In, stdin().bytes().next() is Some(Ok(c)): c is the next byte of stdin,
\* and `c as char` is the character with code point c.
InOk ==
    /\ In \in Pending
    /\ stdin # <<>>
    /\ mem' = [mem EXCEPT ![pointer + 1] = from_char_8859(Head(stdin))]
    /\ outted' = TRUE
    /\ stdin' = Tail(stdin)
    /\ UNCHANGED <<pointer, stdout>>
    /\ Return(In)

\* An In that sets outted whether or not it read a byte.
InEofSetsFlag ==
    /\ In \in Pending
    /\ stdin = <<>>
    /\ outted' = TRUE
    /\ UNCHANGED <<mem, pointer, stdout, stdin>>
    /\ Return(In)

\* In, stdin().bytes().next() is None: end of stream.
InEof ==
    /\ In \in Pending
    /\ stdin = <<>>
    /\ UNCHANGED <<mem, pointer, outted, stdout, stdin>>
    /\ Return(In)

\* In, stdin().bytes().next() is Some(Err(_)): the read fails, which the
\* operating system can make happen at any read; nothing is consumed.
InErr ==
    /\ In \in Pending
    /\ UNCHANGED <<mem, pointer, outted, stdout, stdin>>
    /\ Return(In)

\* A Loop that tests mem[pointer] before its first pass (`while`): on a zero
\* cell the call returns at once, no pass made.
RunLoopWhile ==
    \E i \in Pending :
        /\ i.op = "Loop"
        /\ IF mem[pointer + 1] = 0
           THEN /\ stack' = Advance(stack)
                /\ last' = [instr |-> i, pre |-> Snap, passes |-> 0,
                            depth |-> Len(stack)]
           ELSE /\ stack' = Append(stack, [instr |-> i, body |-> i.body,
                                           idx |-> 1, entry |-> Snap,
                                           passes |-> 0])
                /\ last' = last
        /\ log' = IF stack = <<>> THEN Append(log, i) ELSE log
        /\ UNCHANGED <<mem, pointer, outted, stdout, stdin, start, conv,
                     highest, consumed, parse>>

\* A call on a Loop begins: `loop {` is entered and the `for` starts at the
\* first inner instruction.  No condition is read here.
RunLoop ==
    \E i \in Pending :
        /\ i.op = "Loop"
        /\ stack' = Append(stack, [instr |-> i, body |-> i.body, idx |-> 1,
                                   entry |-> Snap, passes |-> 0])
        /\ log' = IF stack = <<>> THEN Append(log, i) ELSE log
        /\ UNCHANGED <<mem, pointer, outted, stdout, stdin, last, start, conv,
                     highest, consumed, parse>>

\* The `for` of the innermost Loop is exhausted and mem[pointer] is not 0:
\* `loop` starts the next pass.
LoopRepeat ==
    /\ stack # <<>>
    /\ Top.idx > Len(Top.body)
    /\ mem[pointer + 1] # 0
    /\ stack' = [stack EXCEPT ![Len(stack)].idx = 1,
                              ![Len(stack)].passes = @ + 1]
    /\ UNCHANGED <<mem, pointer, outted, stdout, stdin, log, last, start, conv,
                     highest, consumed, parse>>

\* A Loop that leaves after a pass whatever mem[pointer] holds.
LoopBreakAlways ==
    /\ stack # <<>>
    /\ Top.idx > Len(Top.body)
    /\ stack' = Advance(SubSeq(stack, 1, Len(stack) - 1))
    /\ last' = [instr |-> Top.instr, pre |-> Top.entry,
                passes |-> Top.passes + 1, depth |-> Len(stack) - 1]
    /\ UNCHANGED <<mem, pointer, outted, stdout, stdin, log, start, conv,
                   highest, consumed, parse>>

\* The `for` of the innermost Loop is exhausted and mem[pointer] is 0:
\* `break`, the call on the Loop returns to its caller.
LoopBreak ==
    /\ stack # <<>>
    /\ Top.idx > Len(Top.body)
    /\ mem[pointer + 1] = 0
    /\ stack' = Advance(SubSeq(stack, 1, Len(stack) - 1))
    /\ last' = [instr |-> Top.instr, pre |-> Top.entry,
                passes |-> Top.passes + 1, depth |-> Len(stack) - 1]
    /\ UNCHANGED <<mem, pointer, outted, stdout, stdin, log, start, conv,
                     highest, consumed, parse>>

Next ==
    \/ Caller /\ RunIncrement
    \/ Caller /\ RunDecrement
    \/ Caller /\ RunForward
    \/ Caller /\ RunBackward
    \/ Caller /\ RunLoop
    \/ LoopRepeat
    \/ LoopBreak
    \/ Caller /\ RunLoopEnd
    \/ Caller /\ RunOut
    \/ Caller /\ InOk
    \/ Caller /\ InEof
    \/ Caller /\ InErr

Spec == Init /\ [][Next]_vars

(***************************************************************************)
(* The conversions on their own: a chain starts from a byte or from a      *)
(* character and applies to_char_8859 and from_char_8859 in turn.          *)
(***************************************************************************)
\* The characters a chain starts from: every character of the table, and
\* NUL, '\n', U+0100 and the euro sign, which the table does not hold.
CodecChars == {to_char_8859(b) : b \in Byte} \cup {0, 10, 256, 8364}

LastIsByte == (conv.kind = "byte") = (Len(conv.vals) % 2 = 1)

InitCodec ==
    /\ mem = NewState.mem
    /\ pointer = NewState.pointer
    /\ outted = NewState.outted
    /\ stdout = <<>>
    /\ stdin = <<>>
    /\ stack = <<>>
    /\ log = <<>>
    /\ last = NoCall
    /\ start = NewState
    /\ conv \in {[kind |-> "byte", vals |-> <<b>>] : b \in Byte}
                \cup {[kind |-> "char", vals |-> <<c>>] : c \in CodecChars}
    /\ highest = 0
    /\ consumed = <<>>
    /\ parse = NoParse

ConvToChar ==
    /\ Len(conv.vals) < MaxConv
    /\ LastIsByte
    /\ conv' = [conv EXCEPT
                  !.vals = Append(@, to_char_8859(@[Len(@)]))]
    /\ UNCHANGED <<mem, pointer, outted, stdout, stdin, stack, log, last, start,
                   highest, consumed, parse>>

ConvFromChar ==
    /\ Len(conv.vals) < MaxConv
    /\ ~LastIsByte
    /\ conv' = [conv EXCEPT
                  !.vals = Append(@, from_char_8859(@[Len(@)]))]
    /\ UNCHANGED <<mem, pointer, outted, stdout, stdin, stack, log, last, start,
                   highest, consumed, parse>>

NextCodec ==
    \/ ConvToChar
    \/ ConvFromChar

SpecCodec == InitCodec /\ [][NextCodec]_vars

(***************************************************************************)
(* Increment and Decrement from any State: the caller runs Increment up to *)
(* 256 times in a row, or Increment and Decrement once each in either      *)
(* order.                                                                  *)
(***************************************************************************)
AlgStates ==
    {[mem |-> <<v>>, pointer |-> 0, outted |-> o] :
        v \in Byte, o \in BOOLEAN}
    \cup {[mem |-> <<3, v, 250>>, pointer |-> 1, outted |-> o] :
        v \in Byte, o \in BOOLEAN}

\* The State is st and nothing has run on it yet.
InitFrom(st) ==
    /\ mem = st.mem
    /\ pointer = st.pointer
    /\ outted = st.outted
    /\ stdout = <<>>
    /\ stdin = <<>>
    /\ stack = <<>>
    /\ log = <<>>
    /\ last = NoCall
    /\ start = st
    /\ conv = NoConv
    /\ highest = Len(st.mem) - 1
    /\ consumed = <<>>
    /\ parse = NoParse

InitAlg == \E st \in AlgStates : InitFrom(st)

OnlyIncrements == \A k \in DOMAIN log : log[k] = Increment

NextAlg ==
    \/ /\ \/ OnlyIncrements /\ Len(log) < ByteMod
          \/ log = <<Decrement>>
       /\ RunIncrement
    \/ /\ log \in {<<>>, <<Increment>>}
       /\ RunDecrement

SpecAlg == InitAlg /\ [][NextAlg]_vars

(***************************************************************************)
(* "[>+<-]" from a State with pointer 0, and "+[>+<-]" from the new State. *)
(* The interpreter is one thread that runs until the call returns, hence   *)
(* the weak fairness.                                                      *)
(***************************************************************************)
CopyStates ==
    {[mem |-> <<n>>, pointer |-> 0, outted |-> FALSE] : n \in Byte}
    \cup {[mem |-> <<n, m>>, pointer |-> 0, outted |-> FALSE] :
        n \in Byte, m \in {0, 100, 255}}
    \cup {[mem |-> <<n, 1, 7>>, pointer |-> 0, outted |-> FALSE] : n \in Byte}

InitCopy == \E st \in CopyStates : InitFrom(st)

NextCopy ==
    \/ /\ stack = <<>> => (log = <<>> /\ start = NewState)
       /\ RunIncrement
    \/ /\ RunLoop
       /\ log' \in {<<CopyLoop>>, <<Increment, CopyLoop>>}
    \/ stack # <<>> /\ RunForward
    \/ stack # <<>> /\ RunBackward
    \/ stack # <<>> /\ RunDecrement
    \/ LoopRepeat
    \/ LoopBreak

SpecCopy == InitCopy /\ [][NextCopy]_vars /\ WF_vars(NextCopy)

(***************************************************************************)
(* lib.rs: Instruction::try_from(char), and the parser of a whole source   *)
(* text that uses it.  The parser keeps a stack of open instruction        *)
(* sequences, the top level first.  What it does with a `]` that closes    *)
(* nothing and with a `[` that is never closed is left open: the model     *)
(* takes either of the two policies named for each, dropping or rejecting. *)
(***************************************************************************)
TryFromCharError == Leaf("TryFromCharError")

\* A try_from with the arms of '.' and ',' exchanged.
TryFromDotComma(c) ==
    CASE c = 43 -> Increment
      [] c = 45 -> Decrement
      [] c = 62 -> Forward
      [] c = 60 -> Backward
      [] c = 91 -> Loop(<<>>)
      [] c = 93 -> LoopEnd
      [] c = 46 -> In
      [] c = 44 -> Out
      [] OTHER -> TryFromCharError

\* A try_from with the arms of '>' and '<' exchanged.
TryFromArrows(c) ==
    CASE c = 43 -> Increment
      [] c = 45 -> Decrement
      [] c = 62 -> Backward
      [] c = 60 -> Forward
      [] c = 91 -> Loop(<<>>)
      [] c = 93 -> LoopEnd
      [] c = 46 -> Out
      [] c = 44 -> In
      [] OTHER -> TryFromCharError

\* Instruction::try_from(c): '+' '-' '>' '<' '[' ']' '.' ',' and `_`.
try_from(c) ==
    CASE c = 43 -> Increment
      [] c = 45 -> Decrement
      [] c = 62 -> Forward
      [] c = 60 -> Backward
      [] c = 91 -> Loop(<<>>)
      [] c = 93 -> LoopEnd
      [] c = 46 -> Out
      [] c = 44 -> In
      [] OTHER -> TryFromCharError

\* The characters of the source texts: the eight instructions and 'x'.
ParseChars == {43, 45, 62, 60, 91, 93, 46, 44, 120}

\* The characters of the one-character texts: ASCII, the pound sign, the thin
\* space and the full-width plus sign.
ClassChars == (0 .. 127) \cup {163, 8201, 65291}

\* "+[>+<-]"
CopySource == <<43, 91, 62, 43, 60, 45, 93>>

Sources ==
    UNION {[1 .. n -> ParseChars] : n \in 0 .. MaxSrc}
    \cup {<<c>> : c \in ClassChars}
    \cup {CopySource}

InitParse ==
    /\ mem = NewState.mem
    /\ pointer = NewState.pointer
    /\ outted = NewState.outted
    /\ stdout = <<>>
    /\ stdin = <<>>
    /\ stack = <<>>
    /\ log = <<>>
    /\ last = NoCall
    /\ start = NewState
    /\ conv = NoConv
    /\ highest = 0
    /\ consumed = <<>>
    /\ \E text \in Sources :
          parse = [src |-> text, pos |-> 0, stk |-> <<<<>>>>, ch |-> -1,
                   cls |-> Leaf("None"), state |-> "run", tree |-> <<>>]

\* The character the parser reads next, and what try_from makes of it.
NextChar == parse.src[parse.pos + 1]
Reading == parse.state = "run" /\ parse.pos < Len(parse.src)
AtEnd == parse.state = "run" /\ parse.pos = Len(parse.src)

\* The parser has read NextChar and its stack is now stk.
Consume(stk) ==
    /\ parse' = [parse EXCEPT !.pos = @ + 1, !.stk = stk,
                              !.ch = NextChar, !.cls = try_from(NextChar)]
    /\ UNCHANGED <<mem, pointer, outted, stdout, stdin, stack, log, last,
                   start, conv, highest, consumed>>

\* The parser stops in state st with the tree t.
Stop(st, t) ==
    /\ parse' = [parse EXCEPT !.state = st, !.tree = t]
    /\ UNCHANGED <<mem, pointer, outted, stdout, stdin, stack, log, last,
                   start, conv, highest, consumed>>

\* A character that is no instruction is skipped.
ParseSkip ==
    /\ Reading
    /\ try_from(NextChar) = TryFromCharError
    /\ Consume(parse.stk)

\* `[` opens a new, empty sequence.
ParseOpen ==
    /\ Reading
    /\ try_from(NextChar).op = "Loop"
    /\ Consume(Append(parse.stk, <<>>))

\* `]` pops the open sequence and appends it, as a Loop, to the new top.
ParseClose ==
    /\ Reading
    /\ try_from(NextChar) = LoopEnd
    /\ Len(parse.stk) > 1
    /\ LET n == Len(parse.stk)
           rest == SubSeq(parse.stk, 1, n - 1)
       IN  Consume([rest EXCEPT ![n - 1] = Append(@, Loop(parse.stk[n]))])

\* A `]` with no sequence open that is kept in the tree as a LoopEnd.
ParseCloseKept ==
    /\ Reading
    /\ try_from(NextChar) = LoopEnd
    /\ Len(parse.stk) = 1
    /\ Consume([parse.stk EXCEPT ![1] = Append(@, LoopEnd)])

\* `]` with no sequence open, dropped.
ParseCloseDropped ==
    /\ Reading
    /\ try_from(NextChar) = LoopEnd
    /\ Len(parse.stk) = 1
    /\ Consume(parse.stk)

\* `]` with no sequence open, rejected.
ParseCloseRejected ==
    /\ Reading
    /\ try_from(NextChar) = LoopEnd
    /\ Len(parse.stk) = 1
    /\ Stop("fail", <<>>)

\* '+' '-' '>' '<' '.' ',' are appended to the open sequence.
ParseLeaf ==
    /\ Reading
    /\ try_from(NextChar) \in {Increment, Decrement, Forward, Backward, Out, In}
    /\ Consume([parse.stk EXCEPT
                  ![Len(parse.stk)] = Append(@, try_from(NextChar))])

\* The end of the text with every `[` closed: the top level is the tree.
ParseFinish ==
    /\ AtEnd
    /\ Len(parse.stk) = 1
    /\ Stop("done", parse.stk[1])

\* The end of the text with a `[` open, the unclosed sequences dropped.
ParseFinishDropped ==
    /\ AtEnd
    /\ Len(parse.stk) > 1
    /\ Stop("done", parse.stk[1])

\* The end of the text with a `[` open, rejected.
ParseFinishRejected ==
    /\ AtEnd
    /\ Len(parse.stk) > 1
    /\ Stop("fail", <<>>)

NextParse ==
    \/ ParseSkip
    \/ ParseOpen
    \/ ParseClose
    \/ ParseCloseDropped
    \/ ParseCloseRejected
    \/ ParseLeaf
    \/ ParseFinish
    \/ ParseFinishDropped
    \/ ParseFinishRejected

SpecParse == InitParse /\ [][NextParse]_vars

(***************************************************************************)
(* "[-]" from any State.  One thread runs until the call returns, hence    *)
(* the weak fairness.                                                      *)
(***************************************************************************)
InitClear == \E st \in AlgStates : InitFrom(st)

NextClear ==
    \/ /\ RunLoop
       /\ log' = <<ClearLoop>>
    \/ stack # <<>> /\ RunDecrement
    \/ LoopRepeat
    \/ LoopBreak

SpecClear == InitClear /\ [][NextClear]_vars /\ WF_vars(NextClear)

(***************************************************************************)
(* The conversions from a character on, and "," followed by "." on the new *)
(* State with one byte of input.                                           *)
(***************************************************************************)
InitEcho ==
    /\ mem = NewState.mem
    /\ pointer = NewState.pointer
    /\ outted = NewState.outted
    /\ stdout = <<>>
    /\ stack = <<>>
    /\ log = <<>>
    /\ last = NoCall
    /\ start = NewState
    /\ highest = 0
    /\ consumed = <<>>
    /\ parse = NoParse
    /\ \/ /\ conv \in {[kind |-> "char", vals |-> <<c>>] : c \in CodecChars}
          /\ stdin = <<>>
       \/ /\ conv = NoConv
          /\ stdin \in {<<x>> : x \in Byte}

NextEcho ==
    \/ conv.kind # "none" /\ ConvToChar
    \/ conv.kind # "none" /\ ConvFromChar
    \/ log = <<>> /\ InOk
    \/ log = <<>> /\ InEof
    \/ log = <<>> /\ InErr
    \/ log = <<In>> /\ RunOut

SpecEcho == InitEcho /\ [][NextEcho]_vars

(***************************************************************************)
(* Properties.  last.pre is the State (and the streams) when the call that *)
(* completed most recently began; the State changes only in calls on leaf  *)
(* instructions, each of which sets last, so while last names a call the   *)
(* variables hold the State that call left.                                *)
(***************************************************************************)
PreCell == last.pre.mem[last.pre.pointer + 1]
Cell == mem[pointer + 1]

\* C1: after State::new() and after every executed instruction, at every
\* nesting depth of Loop, 0 <= pointer < mem.len().
PointerInBounds == 0 <= pointer /\ pointer < Len(mem)

\* C1 witness: a Forward has run inside a Loop inside a Loop, from the last
\* cell.
WitPointerInBounds ==
    /\ Len(stack) = 2
    /\ last.instr = Forward /\ last.depth = 2
    /\ pointer > 0 /\ pointer = Len(mem) - 1

\* C3: a Loop is a do-while.  A call on a Loop starts its first pass without
\* reading any cell; during a pass the call does not return; at the end of a
\* pass it returns if the cell at the pointer of that moment is 0 and starts
\* another pass otherwise; so every completed Loop has made a pass.
DoWhileStep ==
    /\ Len(stack') > Len(stack) =>
          /\ stack'[Len(stack')].idx = 1
          /\ stack'[Len(stack')].passes = 0
          /\ SubSeq(stack', 1, Len(stack)) = stack
    /\ (stack # <<>> /\ Top.idx <= Len(Top.body)) => Len(stack') >= Len(stack)
    /\ (stack # <<>> /\ Top.idx > Len(Top.body)) =>
          IF mem[pointer + 1] = 0
          THEN /\ Len(stack') = Len(stack) - 1
               /\ last'.instr = Top.instr
               /\ last'.passes = Top.passes + 1
          ELSE /\ Len(stack') = Len(stack)
               /\ stack'[Len(stack)].idx = 1
               /\ stack'[Len(stack)].passes = Top.passes + 1
LoopSkippedOnZero ==
    (last.instr.op = "Loop" /\ PreCell = 0) =>
        /\ last.passes = 0
        /\ mem = last.pre.mem
        /\ pointer = last.pre.pointer
        /\ outted = last.pre.outted

\* C5: Forward increases pointer by exactly one; from the last cell it
\* appends exactly one cell of value 0, otherwise the length of mem is
\* unchanged.
ForwardEffect ==
    last.instr = Forward =>
        /\ pointer = last.pre.pointer + 1
        /\ IF last.pre.pointer + 1 = Len(last.pre.mem)
           THEN /\ Len(mem) = Len(last.pre.mem) + 1
                /\ mem[Len(mem)] = 0
           ELSE Len(mem) = Len(last.pre.mem)

\* C5 witness: the caller ran Forward (from the last cell), Backward, Forward
\* (not from the last cell).
WitForwardEffect ==
    /\ log = <<Forward, Backward, Forward>>
    /\ last.instr = Forward
    /\ last.pre.pointer + 1 < Len(last.pre.mem)
    /\ Len(mem) = 2

\* C6: Backward decrements pointer when it is above 0 and changes nothing when
\* it is 0; it never changes mem and the pointer never goes below 0.
BackwardEffect ==
    last.instr = Backward =>
        /\ pointer >= 0
        /\ pointer = IF last.pre.pointer > 0 THEN last.pre.pointer - 1 ELSE 0
        /\ mem = last.pre.mem
        /\ outted = last.pre.outted /\ stdout = last.pre.stdout

\* C6 witness: Backward has run with pointer 0.
WitBackwardEffect ==
    /\ log = <<Forward, Backward, Backward>>
    /\ last.instr = Backward
    /\ last.pre.pointer = 0 /\ pointer = 0

\* C7: Increment sets the current cell to v + 1, and to 0 from 255; Decrement
\* sets it to v - 1, and to 255 from 0.
WrapEffect ==
    /\ last.instr = Increment =>
          Cell = IF PreCell = 255 THEN 0 ELSE PreCell + 1
    /\ last.instr = Decrement =>
          Cell = IF PreCell = 0 THEN 255 ELSE PreCell - 1

\* C7 witness: Decrement has run on 0 and then Increment on 255.
WitWrapEffect ==
    /\ log = <<Decrement, Increment>>
    /\ last.instr = Increment
    /\ PreCell = 255 /\ Cell = 0

\* C2 as stated: from_char_8859(to_char_8859(b)) = b for every byte b.
RoundTripAll ==
    (conv.kind = "byte" /\ Len(conv.vals) >= 3) => conv.vals[3] = conv.vals[1]

\* C2 amended: from_char_8859(to_char_8859(b)) = b for every byte b except
\* 0..31, 127..143, 145..159, whose character is the space and which come
\* back as 144, and 163, which comes back as 160.
RoundTripExact ==
    (conv.kind = "byte" /\ Len(conv.vals) >= 3) =>
        LET b == conv.vals[1]
            r == conv.vals[3]
        IN  r = IF b \in (0 .. 31) \cup (127 .. 159) THEN 144
                ELSE IF b = 163 THEN 160
                ELSE b

\* C2 witness: the byte 163 has gone to its character and come back as 160.
WitRoundTripExact ==
    /\ conv.kind = "byte" /\ Len(conv.vals) = 3
    /\ conv.vals[1] = 163 /\ conv.vals[3] = 160

\* C8: Increment then Decrement, and Decrement then Increment, restore the
\* State they started from; 256 Increments in a row restore the cell.
IncDecInverse ==
    LET now == [mem |-> mem, pointer |-> pointer, outted |-> outted]
    IN  /\ log \in {<<Increment, Decrement>>, <<Decrement, Increment>>} =>
              now = start
        /\ (Len(log) = 256 /\ OnlyIncrements) =>
              Cell = start.mem[start.pointer + 1]

\* C8 witness: 256 Increments have run on a cell that held 200.
WitIncDecInverse ==
    /\ Len(log) = 256 /\ OnlyIncrements
    /\ start.mem[start.pointer + 1] = 200
    /\ Cell = 200

\* C9: "[>+<-]" run with pointer 0, mem[0] = n and mem[1] = m (m = 0 when
\* there is no cell 1) returns, with mem[0] = 0, mem[1] = (m + n) mod 256 and
\* pointer 0; "+[>+<-]" on the new State leaves mem = [0, 1].
CopyDone == stack = <<>> /\ log # <<>> /\ log[Len(log)] = CopyLoop
CopyResult ==
    LET n == last.pre.mem[1]
        m == IF Len(last.pre.mem) >= 2 THEN last.pre.mem[2] ELSE 0
    IN  /\ last.instr = CopyLoop
        /\ last.pre.pointer = 0
        /\ log = <<CopyLoop>> => last.pre.mem = start.mem
        /\ pointer = 0
        /\ Len(mem) >= 2
        /\ mem[1] = 0
        /\ mem[2] = (m + n) % 256
        /\ log = <<Increment, CopyLoop>> => mem = <<0, 1>>
CopyLoopAdds == [](CopyDone => CopyResult) /\ <>CopyDone

\* C9 witness: "+[>+<-]" has run to completion on the new State.
WitCopyLoopAdds ==
    /\ CopyDone
    /\ log = <<Increment, CopyLoop>>
    /\ start = NewState
    /\ mem = <<0, 1>> /\ pointer = 0

\* C10: Out sets outted, appends the one character to_char_8859(mem[pointer])
\* to the output and leaves mem and pointer unchanged; "++." on the new State
\* prints exactly to_char_8859(2).
OutEffect ==
    /\ last.instr = Out =>
          /\ outted
          /\ stdout = Append(last.pre.stdout, to_char_8859(PreCell))
          /\ mem = last.pre.mem
          /\ pointer = last.pre.pointer
    /\ (log = <<Increment, Increment, Out>> /\ start = NewState) =>
          /\ stdout = <<to_char_8859(2)>>
          /\ outted

\* C10 witness: "++." has run on the new State.
WitOutEffect ==
    /\ log = <<Increment, Increment, Out>>
    /\ mem = <<2>>
    /\ Len(stdout) = 1
    /\ outted

\* C11: In at end of stream, or when the read fails, changes nothing: every
\* cell, pointer, outted and the output are as before and nothing is
\* consumed; "," on empty input leaves mem[0] = 0 and outted false.
InWithoutInput ==
    /\ (last.instr = In /\ last.pre.stdin = <<>>) => stdin = <<>>
    /\ (last.instr = In /\ stdin = last.pre.stdin) =>
          /\ mem = last.pre.mem
          /\ pointer = last.pre.pointer
          /\ outted = last.pre.outted
          /\ stdout = last.pre.stdout
    /\ (log = <<In>> /\ consumed = <<>>) => (mem = <<0>> /\ ~outted)

\* C11 witness: "," has run on the new State with empty input.
WitInWithoutInput ==
    /\ log = <<In>>
    /\ last.instr = In /\ last.pre.stdin = <<>>
    /\ mem = <<0>> /\ ~outted

\* C12: In with a byte x available consumes exactly x, stores
\* from_char_8859 of the character with code point x in the current cell,
\* sets outted and leaves pointer, the other cells and the output unchanged.
InWithInput ==
    (last.instr = In /\ stdin # last.pre.stdin) =>
        LET x == Head(last.pre.stdin)
        IN  /\ stdin = Tail(last.pre.stdin)
            /\ consumed # <<>> /\ consumed[Len(consumed)] = x
            /\ mem = [last.pre.mem EXCEPT
                         ![last.pre.pointer + 1] = from_char_8859(x)]
            /\ x = 32 => Cell = 144
            /\ x = 163 => Cell = 160
            /\ x = 10 => Cell = 0
            /\ outted
            /\ pointer = last.pre.pointer
            /\ stdout = last.pre.stdout

\* C12 witness: In has read ' ' and then the pound sign, which is stored as
\* 160.
WitInWithInput ==
    /\ log = <<In, In>>
    /\ consumed = <<32, 163>>
    /\ mem = <<160>> /\ outted

\* C13: from_char_8859 always returns a byte: for a character of the table a
\* byte whose table entry is that character, and 0 for every character that
\* is not in the table, such as '\n' or any code point above U+00FF.
FromCharTotal ==
    (conv.kind = "char" /\ Len(conv.vals) >= 2) =>
        LET c == conv.vals[1]
            r == conv.vals[2]
        IN  /\ r \in Byte
            /\ c \in TableChars => CHAR_TABLE[(r \div 16) + 1][(r % 16) + 1] = c
            /\ (c \notin TableChars \/ c > 255) => r = 0

\* C14: try_from succeeds exactly on + - > < [ ] . , giving Increment,
\* Decrement, Forward, Backward, Loop(empty), LoopEnd, Out, In, and returns
\* TryFromCharError on every other character.
TryFromTable ==
    parse.ch # -1 =>
        /\ parse.ch = 43 => parse.cls = [op |-> "Increment", body |-> <<>>]
        /\ parse.ch = 45 => parse.cls = [op |-> "Decrement", body |-> <<>>]
        /\ parse.ch = 62 => parse.cls = [op |-> "Forward", body |-> <<>>]
        /\ parse.ch = 60 => parse.cls = [op |-> "Backward", body |-> <<>>]
        /\ parse.ch = 91 => parse.cls = [op |-> "Loop", body |-> <<>>]
        /\ parse.ch = 93 => parse.cls = [op |-> "LoopEnd", body |-> <<>>]
        /\ parse.ch = 46 => parse.cls = [op |-> "Out", body |-> <<>>]
        /\ parse.ch = 44 => parse.cls = [op |-> "In", body |-> <<>>]
        /\ parse.ch \notin {43, 45, 62, 60, 91, 93, 46, 44} <=>
              parse.cls.op = "TryFromCharError"

\* C14 witness: 'x' has been classified, as an error.
WitTryFromTable ==
    /\ parse.ch = 120
    /\ parse.cls.op = "TryFromCharError"

\* C15 as stated: "+[>+<-]" parses to two leaf instructions followed by one
\* Loop whose body is [Forward, Increment, Backward, Decrement].
ParseCopyTwoLeaves ==
    (parse.state = "done" /\ parse.src = CopySource) =>
        /\ Len(parse.tree) = 3
        /\ parse.tree[1].op # "Loop"
        /\ parse.tree[2].op # "Loop"
        /\ parse.tree[3] = CopyLoop

\* C15 amended: "+[>+<-]" parses to one leaf instruction, Increment, followed
\* by one Loop whose body is [Forward, Increment, Backward, Decrement].
ParseCopyTree ==
    (parse.state = "done" /\ parse.src = CopySource) =>
        /\ Len(parse.tree) = 2
        /\ parse.tree[1] = [op |-> "Increment", body |-> <<>>]
        /\ parse.tree[2].op = "Loop"
        /\ parse.tree[2].body = <<Forward, Increment, Backward, Decrement>>

\* C15 witness: "+[>+<-]" has been parsed.
WitParseCopyTree ==
    /\ parse.state = "done"
    /\ parse.src = CopySource
    /\ Len(parse.tree) = 2

\* C16: whatever the source text, the tree the parser produces holds no
\* LoopEnd at any depth.
RECURSIVE HasLoopEnd(_)
HasLoopEnd(seq) ==
    \E k \in DOMAIN seq :
        \/ seq[k].op = "LoopEnd"
        \/ seq[k].op = "Loop" /\ HasLoopEnd(seq[k].body)
NoLoopEndInTree == parse.state = "done" => ~HasLoopEnd(parse.tree)

\* C16 witness: a text with a `]` that closes nothing, an unrecognized
\* character and a closed loop has been parsed.
WitNoLoopEndInTree ==
    /\ parse.state = "done"
    /\ parse.src = <<93, 120, 91, 93>>
    /\ parse.tree = <<Loop(<<>>)>>

\* C17: in every reachable state mem.len() is 1 + the highest value pointer
\* has had; mem never shrinks, and it changes length only by a Forward that
\* appends one zero cell at its right end.
TapeStep ==
    /\ Len(mem') >= Len(mem)
    /\ Len(mem') # Len(mem) =>
          /\ last'.instr = Forward
          /\ mem' = Append(mem, 0)
          /\ pointer' = Len(mem)
TapeGrowsRight ==
    /\ [](Len(mem) = highest + 1)
    /\ [][TapeStep]_vars

\* C17 witness: the pointer has been at 2 and has moved back.
WitTapeGrowsRight ==
    /\ highest = 2
    /\ pointer < highest
    /\ Len(mem) = 3

\* C19: Increment and Decrement change nothing but the value of mem[pointer];
\* Forward and Backward change the value of no cell that existed; none of
\* them, nor LoopEnd, changes outted or prints; LoopEnd changes nothing.
SameCells(except) ==
    \A k \in 1 .. Len(last.pre.mem) :
        k \in except \/ (k <= Len(mem) /\ mem[k] = last.pre.mem[k])
LeafFrame ==
    /\ last.instr \in {Increment, Decrement} =>
          /\ pointer = last.pre.pointer
          /\ Len(mem) = Len(last.pre.mem)
          /\ SameCells({pointer + 1})
    /\ last.instr \in {Forward, Backward} => SameCells({})
    /\ last.instr \in {Increment, Decrement, Forward, Backward, LoopEnd} =>
          /\ outted = last.pre.outted
          /\ stdout = last.pre.stdout
          /\ stdin = last.pre.stdin
    /\ last.instr = LoopEnd =>
          /\ mem = last.pre.mem
          /\ pointer = last.pre.pointer

\* C19 witness: an Increment has run inside a Loop, on cell 1, while cell 0
\* held another value.
WitLeafFrame ==
    /\ last.instr = Increment
    /\ last.depth = 1
    /\ pointer = 1
    /\ mem[1] > 1

\* C18: "[-]" returns from every State, after v passes from a cell that holds
\* v > 0 and 256 passes from 0, with the current cell 0 and pointer,
\* mem.len(), the other cells and outted unchanged.
ClearDone == stack = <<>> /\ log = <<ClearLoop>>
ClearResult ==
    LET v == start.mem[start.pointer + 1]
    IN  /\ last.instr = ClearLoop
        /\ last.passes = IF v = 0 THEN 256 ELSE v
        /\ Cell = 0
        /\ pointer = start.pointer
        /\ Len(mem) = Len(start.mem)
        /\ \A k \in 1 .. Len(mem) : k # pointer + 1 => mem[k] = start.mem[k]
        /\ outted = start.outted
        /\ stdout = <<>>
EchoSameChar ==
    /\ (conv.kind = "char" /\ Len(conv.vals) >= 3
          /\ conv.vals[1] \in TableChars) => conv.vals[3] = conv.vals[1]
    /\ (log = <<In, Out>> /\ consumed # <<>>
          /\ consumed[1] \in TableChars) => stdout = <<consumed[1]>>

\* C20 witness: "," has read the pound sign (byte 163), stored 160, and "."
\* has printed the pound sign.
WitEchoSameChar ==
    /\ log = <<In, Out>>
    /\ consumed = <<163>>
    /\ mem = <<160>>
    /\ stdout = <<163>>

====
